---- MODULE Spec2Model ----
(***************************************************************************)
(* The GeoJSON feature-collection layer of mobius-lib-turf: the store      *)
(* (create / addFeature / delFeature), the geometry-type classifiers and   *)
(* the property-type scan, in their two variants, feature_coll.ts and the  *)
(* older model module.                                                     *)
(*                                                                         *)
(* Objects live in heaps, as in JavaScript: features are addressed by a    *)
(* FeatId, arrays by an ArrRef; a collection holds the ArrRef of its       *)
(* features array, an array holds FeatIds.                                 *)
(***************************************************************************)
EXTENDS Integers, Sequences, FiniteSets, TLC

VARIABLES
    feats,    \* heap of feature objects: FeatId -> [id, geometry, properties]
    coll,     \* the collection object: [type, crs, features (an ArrRef)]
    arrays,   \* heap of arrays: ArrRef -> sequence of FeatId
    module,   \* the module whose functions the program calls
    call,     \* the last call made: [op, arg, ret]
    pre,      \* the heaps and the collection as they were when that call began
    step,     \* the number of calls made so far in a scripted run, of writes in a free one
    held,     \* the property map the caller keeps from a call of getProperties
    abstract, \* the list the store is compared with, and the calls counted: [list, adds, removed]
    second    \* a second collection object, once the program has created one

vars == <<feats, coll, module, arrays, call, pre, step, held, abstract, second>>

\* Longest features array the store is driven to.
MaxFeatures == 2

\* Most writes to property maps in one run.
MaxWrites == 2

(***************************************************************************)
(* JavaScript values: numbers (integer part n, fractional digits f), NaN,  *)
(* strings (s, a sequence of characters), booleans, null, undefined and    *)
(* plain objects.                                                          *)
(***************************************************************************)
JSVal(t, n, f, s) == [t |-> t, n |-> n, f |-> f, s |-> s]
Num(n) == JSVal("number", n, <<>>, <<>>)
Dec(n, f) == JSVal("number", n, f, <<>>)
NaN == JSVal("NaN", 0, <<>>, <<>>)
Str(s) == JSVal("string", 0, <<>>, s)
Bool(b) == JSVal("boolean", IF b THEN 1 ELSE 0, <<>>, <<>>)
Null == JSVal("null", 0, <<>>, <<>>)
Undefined == JSVal("undefined", 0, <<>>, <<>>)
Obj == JSVal("object", 0, <<>>, <<>>)
Fn == JSVal("function", 0, <<>>, <<>>)

\* a === b
StrictEquals(a, b) ==
    /\ a.t = b.t
    /\ a.t # "NaN"
    /\ a.t # "object"
    /\ a.n = b.n
    /\ a.f = b.f
    /\ a.s = b.s

Digits == <<"0", "1", "2", "3", "4", "5", "6", "7", "8", "9">>
WhiteSpace == {" ", "\n", "\t", "\r"}

DigitOf(c) == CHOOSE d \in 0..9 : Digits[d + 1] = c
IsDigit(c) == \E d \in 0..9 : Digits[d + 1] = c

\* Number.prototype.toString of an integer
RECURSIVE NatToString(_)
NatToString(n) ==
    IF n < 10 THEN <<Digits[n + 1]>>
    ELSE NatToString(n \div 10) \o <<Digits[(n % 10) + 1]>>

NumberToString(n) == IF n < 0 THEN <<"-">> \o NatToString(-n) ELSE NatToString(n)

\* Array.prototype.join(",") of an array nested depth levels deep over numbers
RECURSIVE ArrayToString(_, _)
RECURSIVE JoinFrom(_, _, _)
JoinFrom(a, i, depth) ==
    IF i > Len(a) THEN <<>>
    ELSE (IF i > 1 THEN <<",">> ELSE <<>>)
         \o (IF depth = 1 THEN NumberToString(a[i]) ELSE ArrayToString(a[i], depth - 1))
         \o JoinFrom(a, i + 1, depth)
ArrayToString(a, depth) == JoinFrom(a, 1, depth)

\* the StrWhiteSpace trimmed from both ends of a string
RECURSIVE TrimLeft(_)
TrimLeft(s) == IF s # <<>> /\ Head(s) \in WhiteSpace THEN TrimLeft(Tail(s)) ELSE s
RECURSIVE TrimRight(_)
TrimRight(s) ==
    IF s # <<>> /\ s[Len(s)] \in WhiteSpace THEN TrimRight(SubSeq(s, 1, Len(s) - 1)) ELSE s
Trim(s) == TrimRight(TrimLeft(s))

RECURSIVE DigitsValue(_, _)
DigitsValue(s, acc) ==
    IF s = <<>> THEN acc ELSE DigitsValue(Tail(s), 10 * acc + DigitOf(Head(s)))

RECURSIVE DropTrailingZeros(_)
DropTrailingZeros(f) ==
    IF f # <<>> /\ f[Len(f)] = 0 THEN DropTrailingZeros(SubSeq(f, 1, Len(f) - 1)) ELSE f

AllDigits(s) == \A i \in 1..Len(s) : IsDigit(s[i])

\* ToNumber of a string: the decimal literals [+-]digits[.digits], "" as 0
StringToNumber(str) ==
    LET t == Trim(str)
        signed == t # <<>> /\ Head(t) \in {"+", "-"}
        neg == t # <<>> /\ Head(t) = "-"
        body == IF signed THEN Tail(t) ELSE t
        dots == {i \in 1..Len(body) : body[i] = "."}
        dot == IF dots = {} THEN Len(body) + 1 ELSE CHOOSE i \in dots : \A j \in dots : i <= j
        ip == SubSeq(body, 1, dot - 1)
        fp == SubSeq(body, dot + 1, Len(body))
        mag == DigitsValue(ip, 0)
    IN  IF t = <<>> THEN Num(0)
        ELSE IF AllDigits(ip) /\ AllDigits(fp) /\ Len(ip) + Len(fp) > 0
        THEN Dec(IF neg THEN -mag ELSE mag,
                 DropTrailingZeros([i \in 1..Len(fp) |-> DigitOf(fp[i])]))
        ELSE NaN

\* ToNumber of a value
ToNumber(v) ==
    CASE v.t = "number" -> v
      [] v.t = "NaN" -> NaN
      [] v.t = "string" -> StringToNumber(v.s)
      [] v.t = "boolean" -> Num(v.n)
      [] v.t = "null" -> Num(0)
      [] v.t = "undefined" -> NaN
      [] v.t = "object" -> NaN

\* a test of the value's type in place of isNaN: typeof v !== "number"
isNaN_typeof(v) == v.t \notin {"number", "NaN"}

\* the global isNaN(v)
isNaN(v) == ToNumber(v).t = "NaN"

\* x > k for a number value x and an integer k (false when x is NaN)
GreaterThan(x, k) ==
    /\ x.t = "number"
    /\ \/ x.n > k
       \/ x.n = k /\ x.n >= 0 /\ x.f # <<>>

(***************************************************************************)
(* The feature objects the calls are made with.  Coordinates are nested    *)
(* arrays of numbers: a position is an array of numbers, a ring an array   *)
(* of positions, a Polygon an array of rings, a MultiPolygon an array of   *)
(* faces (arrays of rings).                                                *)
(***************************************************************************)
Outer == <<<<0, 0>>, <<4, 0>>, <<0, 4>>, <<0, 0>>>>
Hole == <<<<1, 1>>, <<2, 1>>, <<1, 2>>, <<1, 1>>>>
Outer2 == <<<<5, 5>>, <<9, 5>>, <<5, 9>>, <<5, 5>>>>
Hole2 == <<<<6, 6>>, <<7, 6>>, <<6, 7>>, <<6, 6>>>>

Geometry(type, coordinates) == [type |-> type, coordinates |-> coordinates]
Prop(key, value) == [key |-> key, value |-> value]
Feature(id, geometry, properties) ==
    [type |-> "Feature", id |-> id, geometry |-> geometry, properties |-> properties]

FeaturePool ==
    <<  \* the polygon of testData1 (id 0, no hole), with some of its properties
        Feature(Num(0), Geometry("Polygon", <<Outer>>),
                <<Prop("FID", Num(0)), Prop("objectid_1", Str(<<"4">>)),
                  Prop("PDT_OWNER", Str(<<"U", "n", "k">>)),
                  Prop("DIST_FEED", Dec(3778, <<1, 9, 4>>)),
                  Prop("DEFAULT", Str(<<"\n">>))>>),
        \* a polygon with one hole, carrying the same id
        Feature(Num(0), Geometry("Polygon", <<Outer, Hole>>),
                <<Prop("PDT_OWNER", Num(7)), Prop("GPR", Str(<<"2", ".", "5">>))>>),
        \* a multipolygon whose first face has no hole, its second and third one each
        Feature(Num(1), Geometry("MultiPolygon",
                                 <<<<Outer>>, <<Outer2, Hole2>>, <<Outer, Hole>>>>), <<>>),
        \* a multipolygon without holes, id the string "1"
        Feature(Str(<<"1">>), Geometry("MultiPolygon", <<<<Outer>>, <<Outer2>>>>), <<>>),
        \* a multipolygon with no faces
        Feature(Num(4), Geometry("MultiPolygon", <<>>), <<>>),
        \* two features without an id
        Feature(Undefined, Geometry("Point", <<1, 1>>), <<>>),
        Feature(Undefined, Geometry("LineString", <<<<0, 0>>, <<4, 4>>>>), <<>>),
        Feature(Num(2), Geometry("MultiPoint", <<<<0, 0>>, <<4, 4>>>>), <<>>),
        Feature(Num(3), Geometry("MultiLineString", <<<<<<0, 0>>, <<4, 4>>>>>>), <<>>),
        \* a geometry none of the classifiers knows
        Feature(Str(<<"g">>), Geometry("GeometryCollection", <<>>), <<>>) >>

FeatId == 1..Len(FeaturePool)
ArrRef == 1..3

\* a reference already in use: the array handed out is one that exists
Alloc_alias(used) == IF used = {} THEN 1 ELSE CHOOSE r \in ArrRef : r \in used

\* a reference no live object uses
Alloc(used) == CHOOSE r \in ArrRef : r \notin used

Crs(name) == [own |-> TRUE, type |-> "name", name |-> name]
NoCrs == [own |-> FALSE, type |-> "", name |-> ""]

\* no collection object
NoCollection == [type |-> "", crs |-> NoCrs, features |-> 0]

\* Array.prototype.splice(start, deleteCount), start counted from 0
splice(a, start, deleteCount) ==
    SubSeq(a, 1, start) \o SubSeq(a, start + deleteCount + 1, Len(a))

(***************************************************************************)
(* feature_coll.ts                                                         *)
(***************************************************************************)
create == [type |-> "FeatureCollection", crs |-> NoCrs, features |-> Alloc({})]

\* the loop with unshift in place of push
RECURSIVE ForOfPush_unshift(_, _, _, _)
ForOfPush_unshift(passing, features, i, out) ==
    IF i > Len(features) THEN out
    ELSE ForOfPush_unshift(passing, features, i + 1,
                           IF features[i] \in passing THEN <<features[i]>> \o out ELSE out)

\* for (const feature of features) { if (test) { out.push(feature); } }
\* where passing is the set of the features the test holds of
RECURSIVE ForOfPush(_, _, _, _)
ForOfPush(passing, features, i, out) ==
    IF i > Len(features) THEN out
    ELSE ForOfPush(passing, features, i + 1,
                   IF features[i] \in passing THEN Append(out, features[i]) ELSE out)

getPoints(featureColl) ==
    ForOfPush({feature \in FeatId : feats[feature].geometry.type = "Point"},
              arrays[featureColl.features], 1, <<>>)

getLinestrings(featureColl) ==
    ForOfPush({feature \in FeatId : feats[feature].geometry.type = "LineString"},
              arrays[featureColl.features], 1, <<>>)

getPolygons(featureColl) ==
    ForOfPush({feature \in FeatId : feats[feature].geometry.type = "Polygon"},
              arrays[featureColl.features], 1, <<>>)

\* getPolygonsWithHoles counting a single ring as a hole
getPolygonsWithHoles_oneRing(featureColl) ==
    LET features == arrays[featureColl.features]
    IN  SelectSeq(features, LAMBDA feature :
                      /\ feats[feature].geometry.type = "Polygon"
                      /\ Len(feats[feature].geometry.coordinates) > 0)

\* getPolygonsWithHoles without its test of the geometry type
getPolygonsWithHoles_anyType(featureColl) ==
    LET features == arrays[featureColl.features]
    IN  SelectSeq(features, LAMBDA feature : Len(feats[feature].geometry.coordinates) > 1)

getPolygonsWithHoles(featureColl) ==
    ForOfPush({feature \in FeatId :
                  /\ feats[feature].geometry.type = "Polygon"
                  /\ Len(feats[feature].geometry.coordinates) > 1},
              arrays[featureColl.features], 1, <<>>)

\* getMultiPoints testing for the tag of getPoints
getMultiPoints_asPoints(featureColl) ==
    LET features == arrays[featureColl.features]
    IN  SelectSeq(features, LAMBDA feature : feats[feature].geometry.type = "Point")

getMultiPoints(featureColl) ==
    ForOfPush({feature \in FeatId : feats[feature].geometry.type = "MultiPoint"},
              arrays[featureColl.features], 1, <<>>)

getMultiLineStrings(featureColl) ==
    ForOfPush({feature \in FeatId : feats[feature].geometry.type = "MultiLineString"},
              arrays[featureColl.features], 1, <<>>)

getMultiPolygons(featureColl) ==
    ForOfPush({feature \in FeatId : feats[feature].geometry.type = "MultiPolygon"},
              arrays[featureColl.features], 1, <<>>)

\* has_holes looking at the first face only
has_holes_firstFace(coordinates, i) ==
    /\ Len(coordinates) > 0
    /\ Len(coordinates[1]) > 1

\* for (const face of coordinates) { if (face.length > 1) {has_holes = true; break;} }
RECURSIVE has_holes(_, _)
has_holes(coordinates, i) ==
    IF i > Len(coordinates) THEN FALSE
    ELSE IF Len(coordinates[i]) > 1 THEN TRUE
    ELSE has_holes(coordinates, i + 1)

getMultiPolygonsWithHoles(featureColl) ==
    ForOfPush({feature \in FeatId :
                  /\ feats[feature].geometry.type = "MultiPolygon"
                  /\ has_holes(feats[feature].geometry.coordinates, 1)},
              arrays[featureColl.features], 1, <<>>)

\* Map.prototype.has / set on a map kept as its entries in insertion order
MapHas(m, key) == \E i \in 1..Len(m) : m[i].key = key
MapSet(m, key, value) ==
    IF MapHas(m, key)
    THEN [i \in 1..Len(m) |-> IF m[i].key = key THEN Prop(key, value) ELSE m[i]]
    ELSE Append(m, Prop(key, value))

\* the scan of one feature's keys without the test properties.has(key): last seen wins
RECURSIVE getPropertyTypes_keys_lastWins(_, _, _)
getPropertyTypes_keys_lastWins(propos, k, properties) ==
    IF k > Len(propos) THEN properties
    ELSE getPropertyTypes_keys_lastWins(propos, k + 1,
            MapSet(properties, propos[k].key,
                   IF isNaN(propos[k].value) THEN "string" ELSE "number"))

\* for (const key of Object.keys(propos)) { if (!properties.has(key)) {...} }
RECURSIVE getPropertyTypes_keys(_, _, _)
getPropertyTypes_keys(propos, k, properties) ==
    IF k > Len(propos) THEN properties
    ELSE getPropertyTypes_keys(propos, k + 1,
            IF ~MapHas(properties, propos[k].key)
            THEN IF isNaN(propos[k].value)
                 THEN MapSet(properties, propos[k].key, "string")
                 ELSE MapSet(properties, propos[k].key, "number")
            ELSE properties)

RECURSIVE getPropertyTypes_features(_, _, _)
getPropertyTypes_features(features, i, properties) ==
    IF i > Len(features) THEN properties
    ELSE getPropertyTypes_features(features, i + 1,
            getPropertyTypes_keys(feats[features[i]].properties, 1, properties))

getPropertyTypes(featureColl) ==
    getPropertyTypes_features(arrays[featureColl.features], 1, <<>>)

\* addFeature with a uniqueness check on the identifier
addFeature_unique(featureColl, feature) ==
    IF \E i \in 1..Len(arrays[featureColl.features]) :
           StrictEquals(feats[arrays[featureColl.features][i]].id, feats[feature].id)
    THEN arrays[featureColl.features]
    ELSE Append(arrays[featureColl.features], feature)

\* addFeature storing another object than the one it was passed
addFeature_other(featureColl, feature) ==
    Append(arrays[featureColl.features], CHOOSE g \in FeatId : g # feature)

\* featureColl.features.push(feature): the features array afterwards
addFeature(featureColl, feature) == Append(arrays[featureColl.features], feature)

\* delFeature removing the last feature with the identifier, not the first
delFeature_loop_last(features, feature, counter) ==
    LET matches == {i \in 1..Len(features) :
                       StrictEquals(feats[feature].id, feats[features[i]].id)}
    IN  IF matches = {} THEN [features |-> features, ret |-> FALSE]
        ELSE [features |-> splice(features,
                                  (CHOOSE i \in matches : \A j \in matches : j <= i) - 1, 1),
              ret |-> TRUE]

\* delFeature with its scan begun at the second feature
delFeature_loop_from1(features, feature, counter) ==
    LET matches == {i \in 2..Len(features) :
                       StrictEquals(feats[feature].id, feats[features[i]].id)}
    IN  IF matches = {} THEN [features |-> features, ret |-> FALSE]
        ELSE [features |-> splice(features,
                                  (CHOOSE i \in matches : \A j \in matches : i <= j) - 1, 1),
              ret |-> TRUE]

\* delFeature taking out the object it was passed, whatever the identifiers
delFeature_loop_sameObject(features, feature, counter) ==
    LET matches == {i \in 1..Len(features) : features[i] = feature}
    IN  IF matches = {} THEN [features |-> features, ret |-> FALSE]
        ELSE [features |-> splice(features,
                                  (CHOOSE i \in matches : \A j \in matches : i <= j) - 1, 1),
              ret |-> TRUE]

\* the features array afterwards, and the value returned
RECURSIVE delFeature_loop(_, _, _)
delFeature_loop(features, feature, counter) ==
    IF counter >= Len(features) THEN [features |-> features, ret |-> FALSE]
    ELSE IF StrictEquals(feats[feature].id, feats[features[counter + 1]].id)
    THEN [features |-> splice(features, counter, 1), ret |-> TRUE]
    ELSE delFeature_loop(features, feature, counter + 1)

delFeature(featureColl, feature) ==
    delFeature_loop(arrays[featureColl.features], feature, 0)

(***************************************************************************)
(* How a call ends: with a value, or with an error thrown                  *)
(***************************************************************************)
Returns(v) == [k |-> "value", b |-> FALSE, ref |-> 0, map |-> <<>>, val |-> v]
Throws(error, message) ==
    [k |-> "throw", b |-> FALSE, ref |-> 0, map |-> <<>>, error |-> error, message |-> message]

(***************************************************************************)
(* The model module (the older variant of feature_coll.ts)                 *)
(***************************************************************************)
\* the model's create without the crs member, as feature_coll.create has it
model_create_noCrs == [type |-> "FeatureCollection", crs |-> NoCrs, features |-> Alloc({})]

model_create == [type |-> "FeatureCollection", crs |-> Crs("EPSG:4326"), features |-> Alloc({})]

model_getPoints(data) ==
    ForOfPush({feature \in FeatId : feats[feature].geometry.type = "Point"},
              arrays[data.features], 1, <<>>)

model_getLinestrings(data) ==
    ForOfPush({feature \in FeatId : feats[feature].geometry.type = "LineString"},
              arrays[data.features], 1, <<>>)

model_getPolygons(data) ==
    ForOfPush({feature \in FeatId : feats[feature].geometry.type = "Polygon"},
              arrays[data.features], 1, <<>>)

\* feature.geometry.coordinates > 1 compares the array itself with 1: the array
\* is converted to a string (its join with ","), the string to a number
model_getPolygonsHoles(data) ==
    ForOfPush({feature \in FeatId :
                  /\ feats[feature].geometry.type = "Polygon"
                  /\ GreaterThan(StringToNumber(
                         ArrayToString(feats[feature].geometry.coordinates, 3)), 1)},
              arrays[data.features], 1, <<>>)

model_getMultiPoints(data) ==
    ForOfPush({feature \in FeatId : feats[feature].geometry.type = "MultiPoint"},
              arrays[data.features], 1, <<>>)

model_getMultiLinestrings(data) ==
    ForOfPush({feature \in FeatId : feats[feature].geometry.type = "MultiLineString"},
              arrays[data.features], 1, <<>>)

model_getMultiPolygons(data) ==
    ForOfPush({feature \in FeatId : feats[feature].geometry.type = "MultiPolygon"},
              arrays[data.features], 1, <<>>)

model_getMultiPolygonsHoles(data) ==
    ForOfPush({feature \in FeatId :
                  /\ feats[feature].geometry.type = "MultiPolygon"
                  /\ has_holes(feats[feature].geometry.coordinates, 1)},
              arrays[data.features], 1, <<>>)

model_getPropertyTypes(data) ==
    getPropertyTypes_features(arrays[data.features], 1, <<>>)

\* the model's addFeature putting the feature at the front of the array
model_addFeature_unshift(data, feature) == <<feature>> \o arrays[data.features]

model_addFeature(data, feature) == Append(arrays[data.features], feature)

model_delFeature(data, feature) == delFeature_loop(arrays[data.features], feature, 0)

\* getCRS without its test data.hasOwnProperty("crs")
model_getCRS_unguarded(data) ==
    IF data.crs.own THEN Returns(Str(<<data.crs.name>>))
    ELSE Throws("TypeError", <<"Cannot read property 'properties' of undefined">>)

\* if (data.hasOwnProperty("crs")) { return data.crs.properties["name"]; } return null;
model_getCRS(data) ==
    IF data.crs.own THEN Returns(Str(<<data.crs.name>>)) ELSE Returns(Null)

\* data.crs = {type: "name", properties: {name: crs}}: the collection afterwards
model_setCRS(data, crs) == [data EXCEPT !.crs = Crs(crs)]

(***************************************************************************)
(* properties.ts.  A property map is a plain object: its own entries in    *)
(* insertion order, and behind them what it inherits from Object.prototype.*)
(***************************************************************************)
ObjectPrototype ==
    {"constructor", "hasOwnProperty", "isPrototypeOf", "propertyIsEnumerable",
     "toLocaleString", "toString", "valueOf"}

\* Object.prototype.hasOwnProperty
hasOwnProperty(object, name) == MapHas(object, name)

\* object[name]
Get(object, name) ==
    IF hasOwnProperty(object, name)
    THEN object[CHOOSE i \in 1..Len(object) : object[i].key = name].value
    ELSE IF name \in ObjectPrototype THEN Fn
    ELSE Undefined

\* object[name] = value: the object afterwards
Put(object, name, value) ==
    IF hasOwnProperty(object, name)
    THEN [i \in 1..Len(object) |-> IF object[i].key = name THEN Prop(name, value) ELSE object[i]]
    ELSE Append(object, Prop(name, value))

\* getProperties handing out a copy of the map
getProperties_copy(feature) ==
    [has |-> TRUE, of |-> feature, ref |-> 0, map |-> feats[feature].properties]

\* return feature.properties: the object itself
getProperties(feature) == [has |-> TRUE, of |-> feature, ref |-> feature, map |-> <<>>]

\* return feature.properties.keys(); a plain object has a function under "keys" only
\* if one was stored there
getPropertyNames(feature) ==
    IF Get(feats[feature].properties, "keys").t # "function"
    THEN Throws("TypeError", <<"feature.properties.keys is not a function">>)
    ELSE Returns(Undefined)

\* return feature.properties.length
numProperties(feature) == Returns(Get(feats[feature].properties, "length"))

\* hasProperty written with the in operator
hasProperty_in(feature, name) ==
    Returns(Bool(hasOwnProperty(feats[feature].properties, name) \/ name \in ObjectPrototype))

\* return feature.properties.hasOwnProperty(name)
hasProperty(feature, name) ==
    IF Get(feats[feature].properties, "hasOwnProperty").t # "function"
    THEN Throws("TypeError", <<"feature.properties.hasOwnProperty is not a function">>)
    ELSE Returns(Bool(hasOwnProperty(feats[feature].properties, name)))

getProperty(feature, name) ==
    LET result == Get(feats[feature].properties, name)
    IN  IF StrictEquals(result, Undefined)
        THEN Throws("Error", <<"Property ", name, " not found.">>)
        ELSE Returns(result)

\* setProperty that leaves a key alone once it is there
setProperty_insertOnly(feature, name, value) ==
    IF hasOwnProperty(feats[feature].properties, name) THEN feats[feature].properties
    ELSE Put(feats[feature].properties, name, value)

\* setProperty that starts a new map
setProperty_replaceAll(feature, name, value) == <<Prop(name, value)>>

\* feature.properties[name] = value: the map afterwards
setProperty(feature, name, value) == Put(feats[feature].properties, name, value)

(***************************************************************************)
(* Calls.  Each action is one call of an exported function on the          *)
(* collection; it records the call and the state the call began in.  An    *)
(* array returned by an earlier call is dropped when the next call begins. *)
(***************************************************************************)
RetVoid == [k |-> "undefined", b |-> FALSE, ref |-> 0, map |-> <<>>]
RetBool(b) == [k |-> "boolean", b |-> b, ref |-> 0, map |-> <<>>]
RetArray(ref) == [k |-> "array", b |-> FALSE, ref |-> ref, map |-> <<>>]
RetMap(m) == [k |-> "map", b |-> FALSE, ref |-> 0, map |-> m]

Call(op, arg, ret) == [op |-> op, arg |-> arg, ret |-> ret]

Modules == {"feature_coll", "model"}

\* what the caller keeps of getProperties: nothing yet, or the map of feature `of`,
\* which is the object feats[ref].properties itself, or (ref = 0) an object of its
\* own with the entries `map`
NoHeld == [has |-> FALSE, of |-> 0, ref |-> 0, map |-> <<>>]

\* the arrays still referenced when a call begins
Live == [r \in ArrRef |-> IF r = coll.features THEN arrays[r] ELSE <<>>]

Snapshot(liveArrays) == [feats |-> feats, coll |-> coll, arrays |-> liveArrays]

Init ==
    /\ feats = FeaturePool
    /\ module \in Modules
    /\ coll = IF module = "feature_coll" THEN create ELSE model_create
    /\ arrays = [r \in ArrRef |-> <<>>]
    /\ call = Call("create", 0, RetVoid)
    /\ pre = [feats |-> FeaturePool, coll |-> coll, arrays |-> [r \in ArrRef |-> <<>>]]
    /\ step = 0
    /\ held = NoHeld
    /\ abstract = [list |-> <<>>, adds |-> 0, removed |-> 0]
    /\ second = NoCollection

AddFeature(f) ==
    /\ Len(arrays[coll.features]) < MaxFeatures
    /\ arrays' = [Live EXCEPT ![coll.features] =
                      IF module = "feature_coll" THEN addFeature(coll, f)
                      ELSE model_addFeature(coll, f)]
    /\ call' = Call("addFeature", f, RetVoid)
    /\ pre' = Snapshot(Live)
    /\ UNCHANGED <<feats, coll, module>>

DelFeature(f) ==
    /\ LET r == IF module = "feature_coll" THEN delFeature(coll, f)
                ELSE model_delFeature(coll, f)
       IN  /\ arrays' = [Live EXCEPT ![coll.features] = r.features]
           /\ call' = Call("delFeature", f, RetBool(r.ret))
    /\ pre' = Snapshot(Live)
    /\ UNCHANGED <<feats, coll, module>>

\* a call that takes the first feature out of the collection while it builds its result
ReturnArray_consuming(op, result) ==
    LET ref == Alloc({coll.features})
    IN  /\ arrays' = [Live EXCEPT ![ref] = result,
                                  ![coll.features] = IF @ = <<>> THEN @ ELSE Tail(@)]
        /\ call' = Call(op, 0, RetArray(ref))
        /\ pre' = Snapshot(Live)
        /\ UNCHANGED <<feats, coll, module>>

\* a call that fills a new array and returns it
ReturnArray(op, result) ==
    LET ref == Alloc({coll.features})
    IN  /\ arrays' = [Live EXCEPT ![ref] = result]
        /\ call' = Call(op, 0, RetArray(ref))
        /\ pre' = Snapshot(Live)
        /\ UNCHANGED <<feats, coll, module>>

\* a call that fills a new Map and returns it
ReturnMap(op, result) ==
    /\ arrays' = Live
    /\ call' = Call(op, 0, RetMap(result))
    /\ pre' = Snapshot(Live)
    /\ UNCHANGED <<feats, coll, module>>

GetPoints ==
    ReturnArray("getPoints", IF module = "feature_coll" THEN getPoints(coll) ELSE model_getPoints(coll))

GetLinestrings ==
    ReturnArray("getLinestrings",
                IF module = "feature_coll" THEN getLinestrings(coll) ELSE model_getLinestrings(coll))

GetPolygons ==
    ReturnArray("getPolygons",
                IF module = "feature_coll" THEN getPolygons(coll) ELSE model_getPolygons(coll))

GetMultiPoints ==
    ReturnArray("getMultiPoints",
                IF module = "feature_coll" THEN getMultiPoints(coll) ELSE model_getMultiPoints(coll))

GetMultiLineStrings ==
    ReturnArray("getMultiLineStrings",
                IF module = "feature_coll" THEN getMultiLineStrings(coll)
                ELSE model_getMultiLinestrings(coll))

GetMultiPolygons ==
    ReturnArray("getMultiPolygons",
                IF module = "feature_coll" THEN getMultiPolygons(coll) ELSE model_getMultiPolygons(coll))

GetPolygonsWithHoles ==
    /\ module = "feature_coll"
    /\ ReturnArray("getPolygonsWithHoles", getPolygonsWithHoles(coll))

GetPolygonsHoles ==
    /\ module = "model"
    /\ ReturnArray("getPolygonsHoles", model_getPolygonsHoles(coll))

GetMultiPolygonsWithHoles ==
    /\ module = "feature_coll"
    /\ ReturnArray("getMultiPolygonsWithHoles", getMultiPolygonsWithHoles(coll))

GetMultiPolygonsHoles ==
    /\ module = "model"
    /\ ReturnArray("getMultiPolygonsHoles", model_getMultiPolygonsHoles(coll))

GetPropertyTypes ==
    ReturnMap("getPropertyTypes",
              IF module = "feature_coll" THEN getPropertyTypes(coll) ELSE model_getPropertyTypes(coll))

\* The caller changes the array a classifier returned: result.push(f)
ResultPush(f) ==
    /\ call.ret.k = "array"
    /\ call.op \notin {"result.push", "result.shift"}
    /\ arrays' = [arrays EXCEPT ![call.ret.ref] = Append(@, f)]
    /\ call' = Call("result.push", f, call.ret)
    /\ pre' = Snapshot(arrays)
    /\ UNCHANGED <<feats, coll, module>>

\* The caller changes the array a classifier returned: result.shift()
ResultShift ==
    /\ call.ret.k = "array"
    /\ call.op \notin {"result.push", "result.shift"}
    /\ arrays[call.ret.ref] # <<>>
    /\ arrays' = [arrays EXCEPT ![call.ret.ref] = Tail(@)]
    /\ call' = Call("result.shift", 0, call.ret)
    /\ pre' = Snapshot(arrays)
    /\ UNCHANGED <<feats, coll, module>>

Classify ==
    \/ GetPoints
    \/ GetLinestrings
    \/ GetPolygons
    \/ GetPolygonsWithHoles
    \/ GetPolygonsHoles
    \/ GetMultiPoints
    \/ GetMultiLineStrings
    \/ GetMultiPolygons
    \/ GetMultiPolygonsWithHoles
    \/ GetMultiPolygonsHoles
    \/ GetPropertyTypes

Next ==
    \/ (\E f \in FeatId : AddFeature(f)) /\ UNCHANGED <<step, held, abstract, second>>
    \/ (\E f \in FeatId : DelFeature(f)) /\ UNCHANGED <<step, held, abstract, second>>
    \/ (GetPoints) /\ UNCHANGED <<step, held, abstract, second>>
    \/ (GetLinestrings) /\ UNCHANGED <<step, held, abstract, second>>
    \/ (GetPolygons) /\ UNCHANGED <<step, held, abstract, second>>
    \/ (GetPolygonsWithHoles) /\ UNCHANGED <<step, held, abstract, second>>
    \/ (GetPolygonsHoles) /\ UNCHANGED <<step, held, abstract, second>>
    \/ (GetMultiPoints) /\ UNCHANGED <<step, held, abstract, second>>
    \/ (GetMultiLineStrings) /\ UNCHANGED <<step, held, abstract, second>>
    \/ (GetMultiPolygons) /\ UNCHANGED <<step, held, abstract, second>>
    \/ (GetMultiPolygonsWithHoles) /\ UNCHANGED <<step, held, abstract, second>>
    \/ (GetMultiPolygonsHoles) /\ UNCHANGED <<step, held, abstract, second>>
    \/ (GetPropertyTypes) /\ UNCHANGED <<step, held, abstract, second>>
    \/ (\E f \in FeatId : ResultPush(f)) /\ UNCHANGED <<step, held, abstract, second>>
    \/ (ResultShift) /\ UNCHANGED <<step, held, abstract, second>>

Spec == Init /\ [][Next]_vars

(***************************************************************************)
(* The add/delete round trip of the unit tests (test_feature_coll_addFeature *)
(* and test_model_addFeature), continued by two deletes: on a collection   *)
(* just created, add one feature, call a classifier, delete the feature,   *)
(* delete it again.                                                        *)
(***************************************************************************)
RoundTripAdd ==
    /\ step = 0
    /\ \E f \in FeatId : AddFeature(f)
    /\ step' = 1
    /\ UNCHANGED <<held, abstract, second>>

RoundTripClassify ==
    /\ step = 1
    /\ Classify
    /\ step' = 2
    /\ UNCHANGED <<held, abstract, second>>

RoundTripDelete ==
    /\ step = 2
    /\ DelFeature(arrays[coll.features][1])
    /\ step' = 3
    /\ UNCHANGED <<held, abstract, second>>

RoundTripDeleteAgain ==
    /\ step = 3
    /\ DelFeature(call.arg)
    /\ step' = 4
    /\ UNCHANGED <<held, abstract, second>>

NextRoundTrip ==
    \/ RoundTripAdd
    \/ RoundTripClassify
    \/ RoundTripDelete
    \/ RoundTripDeleteAgain

SpecRoundTrip == Init /\ [][NextRoundTrip]_vars

(***************************************************************************)
(* The same classifier called twice in a row on a collection of any        *)
(* content, nothing done in between.                                       *)
(***************************************************************************)
IdempotentAdd ==
    /\ step = 0
    /\ \E f \in FeatId : AddFeature(f)
    /\ UNCHANGED <<step, held, abstract, second>>

IdempotentFirst ==
    /\ step = 0
    /\ Classify
    /\ step' = 1
    /\ UNCHANGED <<held, abstract, second>>

IdempotentSecond ==
    /\ step = 1
    /\ Classify
    /\ call'.op = call.op
    /\ step' = 2
    /\ UNCHANGED <<held, abstract, second>>

NextIdempotent ==
    \/ IdempotentAdd
    \/ IdempotentFirst
    \/ IdempotentSecond

SpecIdempotent == Init /\ [][NextIdempotent]_vars

(***************************************************************************)
(* The property accessors of properties.ts, called on two features of the  *)
(* heap: the polygon of the test data, with its five properties, and a     *)
(* point with none.  The caller may keep the map getProperties returned    *)
(* and write into it.                                                      *)
(***************************************************************************)
PropFeats == {1, 6}
WriteNames == {"PDT_OWNER", "aaa"}
ReadNames == WriteNames \cup {"toString"}
Values == {Num(12345), Str(<<"x">>), Bool(TRUE), Obj, Undefined}

Args(feature, name, value) == [feature |-> feature, name |-> name, value |-> value]

\* the entries of the map the caller keeps
HeldMap == IF held.ref # 0 THEN feats[held.ref].properties ELSE held.map

GetProperties(f) ==
    /\ held' = getProperties(f)
    /\ call' = Call("getProperties", Args(f, "", Undefined), Returns(Obj))
    /\ pre' = Snapshot(arrays)
    /\ UNCHANGED <<feats, coll, module, arrays, step, abstract, second>>

GetPropertyNames(f) ==
    /\ call' = Call("getPropertyNames", Args(f, "", Undefined), getPropertyNames(f))
    /\ pre' = Snapshot(arrays)
    /\ UNCHANGED <<feats, coll, module, arrays, step, held, abstract, second>>

NumProperties(f) ==
    /\ call' = Call("numProperties", Args(f, "", Undefined), numProperties(f))
    /\ pre' = Snapshot(arrays)
    /\ UNCHANGED <<feats, coll, module, arrays, step, held, abstract, second>>

HasProperty(f, name) ==
    /\ call' = Call("hasProperty", Args(f, name, Undefined), hasProperty(f, name))
    /\ pre' = Snapshot(arrays)
    /\ UNCHANGED <<feats, coll, module, arrays, step, held, abstract, second>>

GetProperty(f, name) ==
    /\ call' = Call("getProperty", Args(f, name, Undefined), getProperty(f, name))
    /\ pre' = Snapshot(arrays)
    /\ UNCHANGED <<feats, coll, module, arrays, step, held, abstract, second>>

SetProperty(f, name, value) ==
    /\ step < MaxWrites
    /\ feats' = [feats EXCEPT ![f].properties = setProperty(f, name, value)]
    /\ call' = Call("setProperty", Args(f, name, value), RetVoid)
    /\ pre' = Snapshot(arrays)
    /\ step' = step + 1
    /\ UNCHANGED <<coll, module, arrays, held, abstract, second>>

\* The caller writes into the map it keeps: properties[name] = value
HeldWrite(name, value) ==
    /\ held.has
    /\ step < MaxWrites
    /\ IF held.ref # 0
       THEN /\ feats' = [feats EXCEPT ![held.ref].properties = Put(@, name, value)]
            /\ UNCHANGED held
       ELSE /\ held' = [held EXCEPT !.map = Put(@, name, value)]
            /\ UNCHANGED feats
    /\ call' = Call("properties[name] = value", Args(held.of, name, value), RetVoid)
    /\ pre' = Snapshot(arrays)
    /\ step' = step + 1
    /\ UNCHANGED <<coll, module, arrays, abstract, second>>

NextProps ==
    \/ \E f \in PropFeats : GetProperties(f)
    \/ \E f \in PropFeats : GetPropertyNames(f)
    \/ \E f \in PropFeats : NumProperties(f)
    \/ \E f \in PropFeats, name \in ReadNames : HasProperty(f, name)
    \/ \E f \in PropFeats, name \in ReadNames : GetProperty(f, name)
    \/ \E f \in PropFeats, name \in WriteNames, value \in Values : SetProperty(f, name, value)
    \/ \E name \in WriteNames, value \in Values : HeldWrite(name, value)

InitProps ==
    /\ Init
    /\ module = "feature_coll"

SpecProps == InitProps /\ [][NextProps]_vars

(***************************************************************************)
(* The coordinate reference system of a collection, read and set with the  *)
(* functions of the model module, on collections of either origin and of   *)
(* any content.                                                            *)
(***************************************************************************)
CrsNames == {"EPSG:4326", "EPSG:3857"}

GetCRS ==
    /\ call' = Call("getCRS", 0, model_getCRS(coll))
    /\ pre' = Snapshot(arrays)
    /\ UNCHANGED <<feats, coll, module, arrays, step, held, abstract, second>>

SetCRS(crs) ==
    /\ coll' = model_setCRS(coll, crs)
    /\ call' = Call("setCRS", 0, RetVoid)
    /\ pre' = Snapshot(arrays)
    /\ UNCHANGED <<feats, module, arrays, step, held, abstract, second>>

NextCRS ==
    \/ (\E f \in FeatId : AddFeature(f)) /\ UNCHANGED <<step, held, abstract, second>>
    \/ GetCRS
    \/ \E crs \in CrsNames : SetCRS(crs)

SpecCRS == Init /\ [][NextCRS]_vars

(***************************************************************************)
(* The math module.  max and min scan a list of numbers the caller built;  *)
(* a number is an integer, NaN, Infinity or -Infinity.  The list is the    *)
(* array arrays[NumsRef], the argument a reference to it or undefined.     *)
(***************************************************************************)
Infinity == JSVal("Infinity", 1, <<>>, <<>>)
NEGATIVE_INFINITY == JSVal("Infinity", 0 - 1, <<>>, <<>>)

\* a < b for numbers
Less(a, b) ==
    /\ a.t # "NaN"
    /\ b.t # "NaN"
    /\ \/ a.t = "number" /\ b.t = "number" /\ a.n < b.n
       \/ a = NEGATIVE_INFINITY /\ b # NEGATIVE_INFINITY
       \/ b = Infinity /\ a # Infinity

NumsRef == 2
ArrayArg(ref) == [t |-> "array", ref |-> ref]

\* let maximum = ...; for (const num of nums) { if (num > maximum) { maximum = num; } }
RECURSIVE max_loop(_, _, _)
max_loop(nums, i, maximum) ==
    IF i > Len(nums) THEN maximum
    ELSE max_loop(nums, i + 1, IF Less(maximum, nums[i]) THEN nums[i] ELSE maximum)

\* max with its scan begun at 0
max_fromZero(nums) ==
    IF nums.t = "undefined" THEN Throws("Error", <<"Invalid arg: ", "nums must be defined.">>)
    ELSE Returns(max_loop(arrays[nums.ref], 1, Num(0)))

max(nums) ==
    IF nums.t = "undefined" THEN Throws("Error", <<"Invalid arg: ", "nums must be defined.">>)
    ELSE Returns(max_loop(arrays[nums.ref], 1, NEGATIVE_INFINITY))

\* let minimum = ...; for (const num of nums) { if (num < minimum) { minimum = num; } }
RECURSIVE min_loop(_, _, _)
min_loop(nums, i, minimum) ==
    IF i > Len(nums) THEN minimum
    ELSE min_loop(nums, i + 1, IF Less(nums[i], minimum) THEN nums[i] ELSE minimum)

min(nums) ==
    IF nums.t = "undefined" THEN Throws("Error", <<"Invalid arg: ", "nums must be defined.">>)
    ELSE Returns(min_loop(arrays[nums.ref], 1, Infinity))

\* Longest list of numbers the caller builds.
MaxNums == 3

Numbers == {Num(0 - 3), Num(0), Num(5), NaN, NEGATIVE_INFINITY}

\* The caller builds the list: nums.push(x)
NumsPush(x) ==
    /\ Len(arrays[NumsRef]) < MaxNums
    /\ arrays' = [arrays EXCEPT ![NumsRef] = Append(@, x)]
    /\ call' = Call("nums.push", x, RetVoid)
    /\ pre' = Snapshot(arrays)
    /\ UNCHANGED <<feats, coll, module, step, held, abstract, second>>

Max(nums) ==
    /\ call' = Call("max", nums, max(nums))
    /\ pre' = Snapshot(arrays)
    /\ UNCHANGED <<feats, coll, module, arrays, step, held, abstract, second>>

Min(nums) ==
    /\ call' = Call("min", nums, min(nums))
    /\ pre' = Snapshot(arrays)
    /\ UNCHANGED <<feats, coll, module, arrays, step, held, abstract, second>>

NextMath ==
    \/ \E x \in Numbers : NumsPush(x)
    \/ \E nums \in {Undefined, ArrayArg(NumsRef)} : Max(nums)
    \/ \E nums \in {Undefined, ArrayArg(NumsRef)} : Min(nums)

InitMath ==
    /\ Init
    /\ module = "feature_coll"

SpecMath == InitMath /\ [][NextMath]_vars

(***************************************************************************)
(* randInt.  Its bounds are numbers that need not be whole: Half(h) is the *)
(* number h/2.  Math.random() is the number random/RandomSteps, for random *)
(* in 0..RandomSteps-1.                                                    *)
(***************************************************************************)
\* Largest bound randInt is called with, in halves, and the grain of the random source.
MaxBound == 4
RandomSteps == 4

Half(h) == [t |-> "number", h |-> h]

\* Math.ceil and Math.floor of the number h/2
ceil(h) == 0 - ((0 - h) \div 2)
floor(h) == h \div 2

\* randInt rounding to the nearest integer
randInt_round(minimum, maximum, random) ==
    IF minimum.t = "undefined" THEN Throws("Error", <<"Invalid arg: ", "min must be defined.">>)
    ELSE IF maximum.t = "undefined" THEN Throws("Error", <<"Invalid arg: ", "max must be defined.">>)
    ELSE LET lower == ceil(minimum.h)
             upper == floor(maximum.h)
         IN  Returns(((2 * random * (upper - lower) + RandomSteps) \div (2 * RandomSteps)) + lower)

\* Math.floor(Math.random() * (upper - lower)) + lower
randInt(minimum, maximum, random) ==
    IF minimum.t = "undefined" THEN Throws("Error", <<"Invalid arg: ", "min must be defined.">>)
    ELSE IF maximum.t = "undefined" THEN Throws("Error", <<"Invalid arg: ", "max must be defined.">>)
    ELSE LET lower == ceil(minimum.h)
             upper == floor(maximum.h)
         IN  Returns(((random * (upper - lower)) \div RandomSteps) + lower)

BoundArgs == {Half(h) : h \in (0 - MaxBound)..MaxBound} \cup {[t |-> "undefined", h |-> 0]}

RandInt(minimum, maximum, random) ==
    /\ call' = Call("randInt", [min |-> minimum, max |-> maximum, random |-> random],
                    randInt(minimum, maximum, random))
    /\ pre' = Snapshot(arrays)
    /\ UNCHANGED <<feats, coll, module, arrays, step, held, abstract, second>>

NextRandInt ==
    \E minimum \in BoundArgs, maximum \in BoundArgs, random \in 0..(RandomSteps - 1) :
        RandInt(minimum, maximum, random)

SpecRandInt == InitMath /\ [][NextRandInt]_vars

(***************************************************************************)
(* read(filename): the text of a file, given as its JSON tokens, parsed by *)
(* JSON.parse into a value of whatever shape the text has.  A value is     *)
(* null, a boolean, a number, a string, an array of values or an object    *)
(* with members in the order of the text.                                  *)
(***************************************************************************)
Punct(s) == [k |-> "punct", s |-> s]
StringTok(s) == [k |-> "string", s |-> s]
NumberTok(s) == [k |-> "number", s |-> s]
LiteralTok(s) == [k |-> "literal", s |-> s]

JNull == [t |-> "null"]
JUndefined == [t |-> "undefined"]
JBoolean(b) == [t |-> "boolean", b |-> b]
JNumber(s) == [t |-> "number", s |-> s]
JString(s) == [t |-> "string", s |-> s]
JArray(items) == [t |-> "array", items |-> items]
JObject(members) == [t |-> "object", members |-> members]

Parsed(value, next) == [ok |-> TRUE, value |-> value, next |-> next]
NotParsed == [ok |-> FALSE, value |-> JUndefined, next |-> 0]

RECURSIVE ParseValue(_, _)
RECURSIVE ParseElements(_, _, _)
RECURSIVE ParseMembers(_, _, _)

\* a JSON value that begins at token i
ParseValue(toks, i) ==
    IF i > Len(toks) THEN NotParsed
    ELSE IF toks[i].k = "literal"
         THEN IF toks[i].s = "null" THEN Parsed(JNull, i + 1)
              ELSE IF toks[i].s \in {"true", "false"}
                   THEN Parsed(JBoolean(toks[i].s = "true"), i + 1)
              ELSE NotParsed
    ELSE IF toks[i].k = "number" THEN Parsed(JNumber(toks[i].s), i + 1)
    ELSE IF toks[i].k = "string" THEN Parsed(JString(toks[i].s), i + 1)
    ELSE IF toks[i] = Punct("[")
         THEN IF i < Len(toks) /\ toks[i + 1] = Punct("]") THEN Parsed(JArray(<<>>), i + 2)
              ELSE ParseElements(toks, i + 1, <<>>)
    ELSE IF toks[i] = Punct("{")
         THEN IF i < Len(toks) /\ toks[i + 1] = Punct("}") THEN Parsed(JObject(<<>>), i + 2)
              ELSE ParseMembers(toks, i + 1, <<>>)
    ELSE NotParsed

\* value (, value)* ]
ParseElements(toks, i, items) ==
    LET r == ParseValue(toks, i)
    IN  IF ~r.ok \/ r.next > Len(toks) THEN NotParsed
        ELSE IF toks[r.next] = Punct(",") THEN ParseElements(toks, r.next + 1, Append(items, r.value))
        ELSE IF toks[r.next] = Punct("]") THEN Parsed(JArray(Append(items, r.value)), r.next + 1)
        ELSE NotParsed

\* string : value (, string : value)* }   a key given twice keeps its last value
ParseMembers(toks, i, members) ==
    IF i + 1 > Len(toks) \/ toks[i].k # "string" \/ toks[i + 1] # Punct(":") THEN NotParsed
    ELSE LET r == ParseValue(toks, i + 2)
         IN  IF ~r.ok \/ r.next > Len(toks) THEN NotParsed
             ELSE IF toks[r.next] = Punct(",")
                  THEN ParseMembers(toks, r.next + 1, Put(members, toks[i].s, r.value))
             ELSE IF toks[r.next] = Punct("}")
                  THEN Parsed(JObject(Put(members, toks[i].s, r.value)), r.next + 1)
             ELSE NotParsed

\* JSON.parse(text)
JSON_parse(toks) ==
    LET r == ParseValue(toks, 1)
    IN  IF r.ok /\ r.next = Len(toks) + 1 THEN Returns(r.value)
        ELSE Throws("SyntaxError", <<"Unexpected token in JSON">>)

\* the files of the run: GeoJSON collections, JSON of other shapes, and broken text
EmptyCollectionText ==
    <<Punct("{"), StringTok("type"), Punct(":"), StringTok("FeatureCollection"), Punct(","),
      StringTok("features"), Punct(":"), Punct("["), Punct("]"), Punct("}")>>

PointFeatureText ==
    <<Punct("{"), StringTok("type"), Punct(":"), StringTok("Feature"), Punct(","),
      StringTok("geometry"), Punct(":"),
          Punct("{"), StringTok("type"), Punct(":"), StringTok("Point"), Punct(","),
                      StringTok("coordinates"), Punct(":"),
                      Punct("["), NumberTok("1"), Punct(","), NumberTok("1"), Punct("]"),
          Punct("}"), Punct(","),
      StringTok("properties"), Punct(":"),
          Punct("{"), StringTok("FID"), Punct(":"), NumberTok("0"), Punct("}"),
      Punct("}")>>

PolygonFeatureText ==
    <<Punct("{"), StringTok("geometry"), Punct(":"),
          Punct("{"), StringTok("type"), Punct(":"), StringTok("Polygon"), Punct("}"), Punct(","),
      StringTok("properties"), Punct(":"), Punct("{"), Punct("}"),
      Punct("}")>>

FeaturesText(features) ==
    <<Punct("{"), StringTok("features"), Punct(":"), Punct("[")>> \o features
        \o <<Punct("]"), Punct("}")>>

Files ==
    << EmptyCollectionText,
       FeaturesText(PointFeatureText),
       FeaturesText(PolygonFeatureText \o <<Punct(",")>> \o PointFeatureText),
       \* well-formed JSON that is no feature collection
       <<Punct("{"), Punct("}")>>,
       <<LiteralTok("null")>>,
       <<Punct("{"), StringTok("features"), Punct(":"), NumberTok("3"), Punct("}")>>,
       FeaturesText(<<LiteralTok("null")>>),
       \* a feature without a location and without properties, as GeoJSON allows
       FeaturesText(<<Punct("{"), StringTok("type"), Punct(":"), StringTok("Feature"), Punct(","),
                      StringTok("geometry"), Punct(":"), LiteralTok("null"), Punct(","),
                      StringTok("properties"), Punct(":"), LiteralTok("null"), Punct("}")>>),
       \* a feature with a geometry and no properties member
       FeaturesText(<<Punct("{"), StringTok("geometry"), Punct(":"),
                      Punct("{"), StringTok("type"), Punct(":"), StringTok("Point"), Punct("}"),
                      Punct("}")>>),
       \* text that is no JSON: cut short, a colon missing, a comma too many, empty
       <<Punct("{"), StringTok("features"), Punct(":"), Punct("[")>>,
       <<Punct("{"), StringTok("features"), Punct("["), Punct("]"), Punct("}")>>,
       <<Punct("["), NumberTok("1"), Punct(","), Punct("]")>>,
       EmptyCollectionText \o <<Punct("}")>>,
       <<>> >>

FileName == 1..Len(Files)

\* JSON.parse(fs.readFileSync(filename).toString())
read(filename) == JSON_parse(Files[filename])

\* value.name, for the member names the functions read, of a value that can be read
CanRead(value) == value.t \notin {"null", "undefined"}
Field(value, name) ==
    IF value.t = "object" /\ hasOwnProperty(value.members, name)
    THEN value.members[CHOOSE i \in 1..Len(value.members) : value.members[i].key = name].value
    ELSE JUndefined

\* for (const feature of features) { if (feature.geometry.type === type) {out.push(feature);} }
\* on an array of any content; out lists the positions of the features pushed
RECURSIVE getByType_loop(_, _, _, _)
getByType_loop(features, i, type, out) ==
    IF i > Len(features) THEN Returns(out)
    ELSE IF ~CanRead(features[i])
         THEN Throws("TypeError", <<"Cannot read property 'geometry' of null">>)
    ELSE IF ~CanRead(Field(features[i], "geometry"))
         THEN Throws("TypeError", <<"Cannot read property 'type' of null">>)
    ELSE LET tag == Field(Field(features[i], "geometry"), "type")
         IN  getByType_loop(features, i + 1, type,
                            IF tag.t = "string" /\ tag.s = type THEN Append(out, i) ELSE out)

\* getPoints, getLinestrings, ... getMultiPolygons on a value of any shape
getByType(data, type) ==
    IF ~CanRead(data) THEN Throws("TypeError", <<"Cannot read property 'features' of null">>)
    ELSE LET features == Field(data, "features")
         IN  IF features.t = "array" THEN getByType_loop(features.items, 1, type, <<>>)
             ELSE IF features.t = "string" /\ features.s = "" THEN Returns(<<>>)
             ELSE IF features.t = "string"
                  THEN Throws("TypeError", <<"Cannot read property 'type' of undefined">>)
             ELSE Throws("TypeError", <<"data.features is not iterable">>)

\* hasProperty(feature, name) on a value of any shape
hasPropertyOf(feature, name) ==
    IF ~CanRead(feature) THEN Throws("TypeError", <<"Cannot read property 'properties' of null">>)
    ELSE IF ~CanRead(Field(feature, "properties"))
         THEN Throws("TypeError", <<"Cannot read property 'hasOwnProperty' of null">>)
    ELSE Returns(Bool(Field(feature, "properties").t = "object"
                      /\ hasOwnProperty(Field(feature, "properties").members, name)))

FilterName ==
    [Point |-> "getPoints", LineString |-> "getLinestrings", Polygon |-> "getPolygons",
     MultiPoint |-> "getMultiPoints", MultiLineString |-> "getMultiLineStrings",
     MultiPolygon |-> "getMultiPolygons"]

\* step = 1 once a file has been read: coll is then the value read
ReadFile(filename) ==
    /\ call' = Call("read", filename, read(filename))
    /\ IF read(filename).k = "value"
       THEN /\ coll' = read(filename).val
            /\ step' = 1
       ELSE UNCHANGED <<coll, step>>
    /\ pre' = Snapshot(arrays)
    /\ UNCHANGED <<feats, module, arrays, held, abstract, second>>

GetLoaded(type) ==
    /\ step = 1
    /\ call' = Call(FilterName[type], 0, getByType(coll, type))
    /\ pre' = Snapshot(arrays)
    /\ UNCHANGED <<feats, coll, module, arrays, step, held, abstract, second>>

\* hasProperty on the first feature of the value read
HasPropertyLoaded(name) ==
    /\ step = 1
    /\ coll.t = "object"
    /\ Field(coll, "features").t = "array"
    /\ Field(coll, "features").items # <<>>
    /\ call' = Call("hasProperty", 0, hasPropertyOf(Field(coll, "features").items[1], name))
    /\ pre' = Snapshot(arrays)
    /\ UNCHANGED <<feats, coll, module, arrays, step, held, abstract, second>>

NextRead ==
    \/ \E filename \in FileName : ReadFile(filename)
    \/ \E type \in DOMAIN FilterName : GetLoaded(type)
    \/ \E name \in {"FID", "aaa"} : HasPropertyLoaded(name)

SpecRead == Init /\ [][NextRead]_vars

(***************************************************************************)
(* addFeature and delFeature beside a list that is appended to and that    *)
(* loses its first element with the identifier                             *)
(***************************************************************************)
MaxAdds == 3

\* the list without its first element whose id equals that of feature
ListRemove(list, feature) ==
    LET same == {i \in 1..Len(list) : StrictEquals(feats[list[i]].id, feats[feature].id)}
    IN  IF same = {} THEN list
        ELSE LET first == CHOOSE i \in same : \A j \in same : i <= j
             IN  SubSeq(list, 1, first - 1) \o SubSeq(list, first + 1, Len(list))

RefineAdd(f) ==
    /\ abstract.adds < MaxAdds
    /\ Len(arrays[coll.features]) < MaxFeatures
    /\ arrays' = [Live EXCEPT ![coll.features] =
                      IF module = "feature_coll" THEN addFeature(coll, f)
                      ELSE model_addFeature(coll, f)]
    /\ call' = Call("addFeature", f, RetVoid)
    /\ pre' = Snapshot(Live)
    /\ abstract' = [list |-> Append(abstract.list, f),
                    adds |-> abstract.adds + 1,
                    removed |-> abstract.removed]
    /\ UNCHANGED <<feats, coll, module, step, held, second>>

RefineDel(f) ==
    /\ LET r == IF module = "feature_coll" THEN delFeature(coll, f)
                ELSE model_delFeature(coll, f)
       IN  /\ arrays' = [Live EXCEPT ![coll.features] = r.features]
           /\ call' = Call("delFeature", f, RetBool(r.ret))
           /\ abstract' = [list |-> ListRemove(abstract.list, f),
                           adds |-> abstract.adds,
                           removed |-> abstract.removed + (IF r.ret THEN 1 ELSE 0)]
    /\ pre' = Snapshot(Live)
    /\ UNCHANGED <<feats, coll, module, step, held, second>>

NextRefine ==
    \/ \E f \in FeatId : RefineAdd(f)
    \/ \E f \in FeatId : RefineDel(f)

SpecRefine == Init /\ [][NextRefine]_vars

(***************************************************************************)
(* Two collections and the result of a classifier, holding the same        *)
(* feature objects                                                         *)
(***************************************************************************)
ShareFeats == {1, 6}
ShareValues == {Num(12345)}

\* the array the classifier hands to the caller, who keeps it
ShareRef == Alloc({coll.features, second.features})

\* create() called twice
InitShare ==
    /\ feats = FeaturePool
    /\ module \in Modules
    /\ coll = IF module = "feature_coll" THEN create ELSE model_create
    /\ second = [coll EXCEPT !.features = Alloc({coll.features})]
    /\ arrays = [r \in ArrRef |-> <<>>]
    /\ call = Call("create", 0, RetVoid)
    /\ pre = [feats |-> FeaturePool, coll |-> coll, arrays |-> [r \in ArrRef |-> <<>>]]
    /\ step = 0
    /\ held = NoHeld
    /\ abstract = [list |-> <<>>, adds |-> 0, removed |-> 0]

\* addFeature on the first collection (c = 1) or on the second (c = 2)
ShareAdd(c, f) ==
    LET target == IF c = 1 THEN coll ELSE second
    IN  /\ Len(arrays[target.features]) < MaxFeatures
        /\ arrays' = [arrays EXCEPT ![target.features] =
                          IF module = "feature_coll" THEN addFeature(target, f)
                          ELSE model_addFeature(target, f)]
        /\ call' = Call("addFeature", [coll |-> c, feature |-> f], RetVoid)
        /\ pre' = Snapshot(arrays)
        /\ UNCHANGED <<feats, coll, module, step, held, abstract, second>>

\* delFeature on the first collection
ShareDel(f) ==
    /\ LET r == IF module = "feature_coll" THEN delFeature(coll, f)
                ELSE model_delFeature(coll, f)
       IN  /\ arrays' = [arrays EXCEPT ![coll.features] = r.features]
           /\ call' = Call("delFeature", [coll |-> 1, feature |-> f], RetBool(r.ret))
    /\ pre' = Snapshot(arrays)
    /\ UNCHANGED <<feats, coll, module, step, held, abstract, second>>

\* getPolygons on the first collection
ShareGetPolygons ==
    /\ arrays' = [arrays EXCEPT ![ShareRef] =
                      IF module = "feature_coll" THEN getPolygons(coll)
                      ELSE model_getPolygons(coll)]
    /\ call' = Call("getPolygons", 1, RetArray(ShareRef))
    /\ pre' = Snapshot(arrays)
    /\ UNCHANGED <<feats, coll, module, step, held, abstract, second>>

\* getPoints on the first collection
ShareGetPoints ==
    /\ arrays' = [arrays EXCEPT ![ShareRef] =
                      IF module = "feature_coll" THEN getPoints(coll)
                      ELSE model_getPoints(coll)]
    /\ call' = Call("getPoints", 1, RetArray(ShareRef))
    /\ pre' = Snapshot(arrays)
    /\ UNCHANGED <<feats, coll, module, step, held, abstract, second>>

ShareSet(f, name, value) ==
    /\ step < MaxWrites
    /\ feats' = [feats EXCEPT ![f].properties = setProperty(f, name, value)]
    /\ call' = Call("setProperty", Args(f, name, value), RetVoid)
    /\ pre' = Snapshot(arrays)
    /\ step' = step + 1
    /\ UNCHANGED <<coll, module, arrays, held, abstract, second>>

NextShare ==
    \/ \E c \in {1, 2}, f \in ShareFeats : ShareAdd(c, f)
    \/ \E f \in ShareFeats : ShareDel(f)
    \/ ShareGetPolygons
    \/ ShareGetPoints
    \/ \E f \in ShareFeats, value \in ShareValues : ShareSet(f, "aaa", value)

SpecShare == InitShare /\ [][NextShare]_vars

(***************************************************************************)
(* getPropertyTypes on features whose properties hold values of every kind *)
(***************************************************************************)
TypeFeats == {1, 2}
TypeValues == {Num(4), Bool(TRUE), Bool(FALSE), Null, NaN, Obj, Str(<<>>), Str(<<"x">>)}

TypesAddFeature(f) ==
    /\ Len(arrays[coll.features]) < MaxFeatures
    /\ arrays' = [Live EXCEPT ![coll.features] =
                      IF module = "feature_coll" THEN addFeature(coll, f)
                      ELSE model_addFeature(coll, f)]
    /\ call' = Call("addFeature", f, RetVoid)
    /\ pre' = Snapshot(Live)
    /\ UNCHANGED <<feats, coll, module, step, held, abstract, second>>

TypesSetProperty(f, name, value) ==
    /\ step < MaxWrites
    /\ feats' = [feats EXCEPT ![f].properties = setProperty(f, name, value)]
    /\ call' = Call("setProperty", Args(f, name, value), RetVoid)
    /\ pre' = Snapshot(arrays)
    /\ step' = step + 1
    /\ UNCHANGED <<coll, module, arrays, held, abstract, second>>

TypesGetPropertyTypes ==
    /\ arrays' = Live
    /\ call' = Call("getPropertyTypes", 0,
                    RetMap(IF module = "feature_coll" THEN getPropertyTypes(coll)
                           ELSE model_getPropertyTypes(coll)))
    /\ pre' = Snapshot(Live)
    /\ UNCHANGED <<feats, coll, module, step, held, abstract, second>>

NextTypes ==
    \/ \E f \in TypeFeats : TypesAddFeature(f)
    \/ \E f \in TypeFeats, value \in TypeValues : TypesSetProperty(f, "aaa", value)
    \/ TypesGetPropertyTypes

SpecTypes == Init /\ [][NextTypes]_vars

(***************************************************************************)
(* What the claims speak of                                                *)
(***************************************************************************)
\* C.features now, and when the last call began
Features == arrays[coll.features]
PreFeatures == pre.arrays[pre.coll.features]

\* the array the last call returned
Result == arrays[call.ret.ref]

TypeOf(f) == feats[f].geometry.type

\* r lists, in the order of s, exactly the elements of s at the positions in I
ListsPositions(r, s, I) ==
    /\ Len(r) = Cardinality(I)
    /\ \A i \in I : r[Cardinality({j \in I : j <= i})] = s[i]

\* s without its element at position i
Without(s, i) == [k \in 1..(Len(s) - 1) |-> IF k < i THEN s[k] ELSE s[k + 1]]

\* the positions of s that hold a feature whose id equals that of f
SameId(s, f) == {i \in 1..Len(s) : StrictEquals(feats[s[i]].id, feats[f].id)}

\* C1: delFeature(C, f) removes the first feature of C.features whose id equals
\* f.id, keeps all the others (later ones with that id too) in their order and
\* returns true; with no such feature it returns false and C.features is unchanged
C1_DelFirstMatch ==
    call.op = "delFeature" =>
        LET m == SameId(PreFeatures, call.arg)
        IN  /\ call.ret.k = "boolean"
            /\ call.ret.b = (m # {})
            /\ m = {} => Features = PreFeatures
            /\ m # {} => \E i \in m : /\ \A j \in m : i <= j
                                      /\ Features = Without(PreFeatures, i)

\* a delete that removed the first of two features with the id of the argument,
\* a feature other than the argument, and kept the second
C1_Witness ==
    /\ call.op = "delFeature"
    /\ call.ret.b
    /\ Len(PreFeatures) = 2
    /\ SameId(PreFeatures, call.arg) = {1, 2}
    /\ PreFeatures[1] # call.arg
    /\ feats[PreFeatures[1]].geometry # feats[call.arg].geometry
    /\ Features = <<PreFeatures[2]>>

\* C2: addFeature(C, f) appends f: the length grows by one, the last element is
\* f, the earlier elements are unchanged; there is no uniqueness check
C2_AddAppends ==
    call.op = "addFeature" =>
        /\ call.ret.k = "undefined"
        /\ Len(Features) = Len(PreFeatures) + 1
        /\ Features[Len(Features)] = call.arg
        /\ \A k \in 1..Len(PreFeatures) : Features[k] = PreFeatures[k]

\* a feature added to a collection that held it already: two entries
C2_Witness ==
    /\ call.op = "addFeature"
    /\ PreFeatures = <<call.arg>>
    /\ Features = <<call.arg, call.arg>>

\* C3: on a collection just created, after addFeature(E, f) with f a Polygon,
\* getPolygons(E) has length 1 and holds f; delFeature(E, f) then returns true
\* and leaves E.features empty; a second delFeature(E, f) returns false
C3_RoundTrip ==
    /\ step = 1 => Features = <<call.arg>>
    /\ (step = 2 /\ call.op = "getPolygons" /\ TypeOf(Features[1]) = "Polygon") =>
           /\ Len(Result) = 1
           /\ Result[1] = Features[1]
    /\ step = 3 => /\ call.ret.b = TRUE
                   /\ Features = <<>>
    /\ step = 4 => /\ call.ret.b = FALSE
                   /\ Features = <<>>

\* the end of the round trip of a Polygon: its second delete has returned false
C3_Witness ==
    /\ step = 4
    /\ call.op = "delFeature"
    /\ TypeOf(call.arg) = "Polygon"
    /\ ~call.ret.b
    /\ PreFeatures = <<>>

\* the tag each type filter selects
TypeFilters ==
    {<<"getPoints", "Point">>, <<"getMultiPoints", "MultiPoint">>,
     <<"getLinestrings", "LineString">>, <<"getMultiLineStrings", "MultiLineString">>,
     <<"getPolygons", "Polygon">>, <<"getMultiPolygons", "MultiPolygon">>}

\* C4: each of the six type filters returns exactly the subsequence of C.features
\* whose geometry.type is its tag, in the order of C.features; an empty sequence
\* when no feature has the tag
C4_TypeFilters ==
    \A tf \in TypeFilters :
        call.op = tf[1] =>
            /\ call.ret.k = "array"
            /\ ListsPositions(Result, PreFeatures,
                              {i \in 1..Len(PreFeatures) : TypeOf(PreFeatures[i]) = tf[2]})

\* getPolygons has returned two different polygons, in the order of the collection
C4_Witness ==
    /\ call.op = "getPolygons"
    /\ Len(Result) = 2
    /\ Result[1] # Result[2]
    /\ Result = Features

\* the six type filters of the module in use, applied to the collection
SixResults ==
    IF module = "feature_coll"
    THEN <<getPoints(coll), getMultiPoints(coll), getLinestrings(coll),
           getMultiLineStrings(coll), getPolygons(coll), getMultiPolygons(coll)>>
    ELSE <<model_getPoints(coll), model_getMultiPoints(coll), model_getLinestrings(coll),
           model_getMultiLinestrings(coll), model_getPolygons(coll),
           model_getMultiPolygons(coll)>>

Recognized == {"Point", "MultiPoint", "LineString", "MultiLineString", "Polygon", "MultiPolygon"}

\* the number of positions of s that hold f
Count(s, f) == Cardinality({i \in 1..Len(s) : s[i] = f})

RECURSIVE SumLen(_, _)
SumLen(rs, c) == IF c > Len(rs) THEN 0 ELSE Len(rs[c]) + SumLen(rs, c + 1)

\* C5: a feature of C.features with a recognized tag is in exactly one of the six
\* results, once for each position it holds; the six lengths add up to the
\* number of features with a recognized tag
C5_Partition ==
    LET rs == SixResults
    IN  /\ \A i \in 1..Len(Features) :
               TypeOf(Features[i]) \in Recognized =>
                   \E c \in 1..6 :
                       /\ Count(rs[c], Features[i]) = Count(Features, Features[i])
                       /\ \A d \in (1..6) \ {c} : Count(rs[d], Features[i]) = 0
        /\ SumLen(rs, 1) =
               Cardinality({i \in 1..Len(Features) : TypeOf(Features[i]) \in Recognized})

\* a type filter has run on a collection holding a feature of an unknown tag
\* and, twice, a feature of a known one
C5_Witness ==
    /\ call.op = "getMultiPoints"
    /\ Len(Features) = 2
    /\ \/ /\ TypeOf(Features[1]) \notin Recognized
          /\ TypeOf(Features[2]) = "Point"
       \/ /\ Features[1] = Features[2]
          /\ Len(Result) = 2

ClassifierOps ==
    {"getPoints", "getMultiPoints", "getLinestrings", "getMultiLineStrings", "getPolygons",
     "getMultiPolygons", "getPolygonsWithHoles", "getPolygonsHoles",
     "getMultiPolygonsWithHoles", "getMultiPolygonsHoles", "getPropertyTypes"}

\* C6: no classifier changes its input (C.features, the features' geometry and
\* properties, C.crs), and the array it returns is a new one: pushing to it or
\* removing from it leaves C.features as it was
C6_NoMutation ==
    /\ call.op \in ClassifierOps =>
           /\ feats = pre.feats
           /\ coll = pre.coll
           /\ Features = PreFeatures
           /\ call.ret.k = "array" => call.ret.ref # coll.features
    /\ call.op \in {"result.push", "result.shift"} =>
           /\ Result # pre.arrays[call.ret.ref]
           /\ feats = pre.feats
           /\ coll = pre.coll
           /\ Features = PreFeatures

\* a feature was pushed to the array a classifier returned for a collection
\* that holds features
C6_Witness ==
    /\ call.op = "result.push"
    /\ Len(Features) = 2
    /\ Len(Result) = Len(pre.arrays[call.ret.ref]) + 1
    /\ Features = PreFeatures

\* the number of rings of a Polygon, of one face of a MultiPolygon
Rings(coordinates) == Cardinality(DOMAIN coordinates)

WithHole(f) ==
    /\ TypeOf(f) = "Polygon"
    /\ Rings(feats[f].geometry.coordinates) >= 2

\* C7: getPolygonsWithHoles returns, in collection order, exactly the features
\* that are Polygons of more than one ring
C7_PolygonsWithHoles ==
    call.op = "getPolygonsWithHoles" =>
        ListsPositions(Result, PreFeatures,
                       {i \in 1..Len(PreFeatures) : WithHole(PreFeatures[i])})

\* of a polygon of one ring and a polygon with a hole, the second was returned
C7_Witness ==
    /\ call.op = "getPolygonsWithHoles"
    /\ Len(Features) = 2
    /\ TypeOf(Features[1]) = "Polygon"
    /\ ~WithHole(Features[1])
    /\ Result = <<Features[2]>>

\* C8: getPolygonsHoles of the model module returns, in collection order, exactly
\* the Polygons of more than one ring
C8_PolygonsHoles ==
    call.op = "getPolygonsHoles" =>
        ListsPositions(Result, PreFeatures,
                       {i \in 1..Len(PreFeatures) : WithHole(PreFeatures[i])})

FaceWithHole(f) ==
    /\ TypeOf(f) = "MultiPolygon"
    /\ \E face \in DOMAIN feats[f].geometry.coordinates :
           Rings(feats[f].geometry.coordinates[face]) >= 2

\* C9: getMultiPolygonsWithHoles, and getMultiPolygonsHoles of the model module,
\* return in collection order exactly the MultiPolygons with a face of more than
\* one ring, each once
C9_MultiPolygonsWithHoles ==
    call.op \in {"getMultiPolygonsWithHoles", "getMultiPolygonsHoles"} =>
        ListsPositions(Result, PreFeatures,
                       {i \in 1..Len(PreFeatures) : FaceWithHole(PreFeatures[i])})

\* of a multipolygon without holes and one whose second and third face have a
\* hole, the second was returned, once
C9_Witness ==
    /\ call.op \in {"getMultiPolygonsWithHoles", "getMultiPolygonsHoles"}
    /\ Len(Features) = 2
    /\ TypeOf(Features[1]) = "MultiPolygon"
    /\ ~FaceWithHole(Features[1])
    /\ Rings(feats[Features[2]].geometry.coordinates[1]) = 1
    /\ Result = <<Features[2]>>

\* a is b with some of its elements left out
IsSubsequence(a, b) ==
    \E g \in [1..Len(a) -> 1..Len(b)] :
        /\ \A k \in 1..Len(a) : a[k] = b[g[k]]
        /\ \A k \in 1..(Len(a) - 1) : g[k] < g[k + 1]

\* C10: getPolygonsWithHoles(C) is a subsequence of getPolygons(C), and
\* getMultiPolygonsWithHoles(C) one of getMultiPolygons(C)
C10_HoleSubsequence ==
    /\ IsSubsequence(getPolygonsWithHoles(coll), getPolygons(coll))
    /\ IsSubsequence(getMultiPolygonsWithHoles(coll), getMultiPolygons(coll))

\* getPolygonsWithHoles has returned some, not all, of the polygons
C10_Witness ==
    /\ call.op = "getPolygonsWithHoles"
    /\ Result # <<>>
    /\ Len(getPolygons(coll)) > Len(Result)

\* C11: a classifier called a second time, with nothing done to the collection
\* since its first call, returns what the first call returned: the same feature
\* objects in the same order (for getPropertyTypes, the same map).
C11_Idempotent ==
    [][(step = 1 /\ step' = 2) =>
          /\ call'.ret.k = call.ret.k
          /\ call'.ret.map = call.ret.map
          /\ call.ret.k = "array" => arrays'[call'.ret.ref] = arrays[call.ret.ref]]_vars

\* getPolygons called twice on a collection of a polygon and another feature
C11_Witness ==
    /\ step = 2
    /\ call.op = "getPolygons"
    /\ Len(Features) = 2
    /\ Len(Result) = 1

\* the keys of a property map, and the value it holds under one of them
Keys(m) == {m[i].key : i \in 1..Len(m)}
ValueAt(m, key) == m[CHOOSE i \in 1..Len(m) : m[i].key = key].value

\* the position in C.features of the first feature that carries the key
FirstCarrier(key) ==
    CHOOSE i \in 1..Len(Features) :
        /\ key \in Keys(feats[Features[i]].properties)
        /\ \A j \in 1..(i - 1) : key \notin Keys(feats[Features[j]].properties)

\* C12: the map getPropertyTypes returns has one entry for each property key that
\* occurs in some feature of C and no other entry; each entry is "string" or
\* "number", and which of the two is decided by the value the key has in the first
\* feature of C.features that carries it, whatever later features hold under it.
C12_PropertyTypes ==
    call.op = "getPropertyTypes" =>
        LET m == call.ret.map
        IN  /\ Keys(m) = UNION {Keys(feats[Features[i]].properties) : i \in 1..Len(Features)}
            /\ \A i, j \in 1..Len(m) : m[i].key = m[j].key => i = j
            /\ \A i \in 1..Len(m) :
                   /\ m[i].value \in {"string", "number"}
                   /\ m[i].value =
                        IF isNaN(ValueAt(feats[Features[FirstCarrier(m[i].key)]].properties,
                                         m[i].key))
                        THEN "string" ELSE "number"

\* PDT_OWNER is a number in the first feature and a string in the second
C12_Witness ==
    /\ call.op = "getPropertyTypes"
    /\ Len(Features) = 2
    /\ "PDT_OWNER" \in Keys(feats[Features[1]].properties)
    /\ "PDT_OWNER" \in Keys(feats[Features[2]].properties)
    /\ ~isNaN(ValueAt(feats[Features[1]].properties, "PDT_OWNER"))
    /\ isNaN(ValueAt(feats[Features[2]].properties, "PDT_OWNER"))
    /\ ValueAt(call.ret.map, "PDT_OWNER") = "number"

\* the property map of a feature now, and when the last call began
Props(f) == feats[f].properties
PreProps(f) == pre.feats[f].properties

\* C13: getProperty(f, name) returns the value stored under name when name is a key
\* of f's property map, and leaves f as it was; when name is not a key it throws
\* Error("Property <name> not found.") and returns nothing.
C13_GetProperty ==
    call.op = "getProperty" =>
        /\ feats = pre.feats
        /\ IF call.arg.name \in Keys(Props(call.arg.feature))
           THEN /\ call.ret.k = "value"
                /\ call.ret.val = ValueAt(Props(call.arg.feature), call.arg.name)
           ELSE /\ call.ret.k = "throw"
                /\ call.ret.error = "Error"
                /\ call.ret.message = <<"Property ", call.arg.name, " not found.">>

\* the kinds of value a property may hold: string, number, boolean, nested structure
Allowed(value) == value.t \in {"string", "number", "boolean", "object"}

C15_SetPropertyFrame ==
    call.op = "setProperty" =>
        LET f == call.arg.feature
        IN  /\ call.ret.k = "undefined"
            /\ Keys(Props(f)) = Keys(PreProps(f)) \cup {call.arg.name}
            /\ ValueAt(Props(f), call.arg.name) = call.arg.value
            /\ \A key \in Keys(PreProps(f)) \ {call.arg.name} :
                   ValueAt(Props(f), key) = ValueAt(PreProps(f), key)
            /\ feats[f].id = pre.feats[f].id
            /\ feats[f].geometry = pre.feats[f].geometry
            /\ \A g \in FeatId \ {f} : feats[g] = pre.feats[g]
            /\ coll = pre.coll
            /\ arrays = pre.arrays

\* a key added to a map that has other keys, with a value that is no string or number
C15_Witness ==
    /\ call.op = "setProperty"
    /\ call.arg.name \notin Keys(PreProps(call.arg.feature))
    /\ Len(PreProps(call.arg.feature)) > 1
    /\ call.arg.value = Bool(TRUE)

C17_GetPropertyNames ==
    call.op = "getPropertyNames" =>
        /\ call.ret.k = "value"
        /\ call.ret.val = [i \in 1..Len(Props(call.arg.feature)) |->
                              Props(call.arg.feature)[i].key]

\* C18: numProperties(f) returns the number of keys of f's property map.
C18_NumProperties ==
    call.op = "numProperties" =>
        /\ call.ret.k = "value"
        /\ call.ret.val = Num(Cardinality(Keys(Props(call.arg.feature))))

\* C19: the map getProperties(f) returned is f's own map and no copy: at any later
\* time it has the entries f's map has, so a setProperty on f shows in it, and a
\* key written into it is found by hasProperty and getProperty on f.
C19_ByReference ==
    held.has =>
        /\ HeldMap = Props(held.of)
        /\ call.op = "properties[name] = value" =>
               /\ hasProperty(held.of, call.arg.name) = Returns(Bool(TRUE))
               /\ Allowed(call.arg.value) =>
                      getProperty(held.of, call.arg.name) = Returns(call.arg.value)

\* a setProperty on f after getProperties(f), adding a key that shows in the kept map
C19_Witness ==
    /\ held.has
    /\ call.op = "setProperty"
    /\ call.arg.feature = held.of
    /\ call.arg.name \notin Keys(PreProps(held.of))
    /\ call.arg.name \in Keys(HeldMap)

C21_Create ==
    call.op = "create" =>
        /\ call.ret.k # "throw"
        /\ coll.type = "FeatureCollection"
        /\ Features = <<>>
        /\ module = "feature_coll" =>
               /\ ~coll.crs.own
               /\ model_getCRS(coll) = Returns(Null)
               /\ \A result \in {getPoints(coll), getLinestrings(coll), getPolygons(coll),
                                  getPolygonsWithHoles(coll), getMultiPoints(coll),
                                  getMultiLineStrings(coll), getMultiPolygons(coll),
                                  getMultiPolygonsWithHoles(coll), getPropertyTypes(coll)} :
                      result = <<>>
        /\ module = "model" =>
               /\ coll.crs.own
               /\ model_getCRS(coll) = Returns(Str(<<"EPSG:4326">>))
               /\ \A result \in {model_getPoints(coll), model_getLinestrings(coll),
                                  model_getPolygons(coll), model_getPolygonsHoles(coll),
                                  model_getMultiPoints(coll), model_getMultiLinestrings(coll),
                                  model_getMultiPolygons(coll),
                                  model_getMultiPolygonsHoles(coll),
                                  model_getPropertyTypes(coll)} :
                      result = <<>>

\* the collection the model module has just created
C21_Witness ==
    /\ call.op = "create"
    /\ module = "model"
    /\ coll.crs.name = "EPSG:4326"
    /\ Features = <<>>

\* C22: on a collection whose features each have a geometry with a type and a
\* property map, no classifier throws, and no accessor does except getProperty
\* asked for a name that is not a key: getProperties, getPropertyNames,
\* numProperties, hasProperty, setProperty and getProperty of a present key return.
C22_NoError ==
    /\ call.op \in ClassifierOps \cup {"getPropertyTypes"} => call.ret.k # "throw"
    /\ call.op \in {"getProperties", "getPropertyNames", "numProperties", "hasProperty",
                    "setProperty"} => call.ret.k # "throw"
    /\ (call.op = "getProperty" /\ call.arg.name \in Keys(Props(call.arg.feature))) =>
           call.ret.k # "throw"

\* C23: read(filename) either throws the parser's error, and then hands out no
\* collection, or returns a value on which the classifiers and accessors run
\* without an error: no file gets past read and then makes one of them throw.
C23_ReadRejects ==
    /\ (call.op = "read" /\ call.ret.k = "throw") => call.ret.error = "SyntaxError"
    /\ (step = 1 /\ call.op # "read") => call.ret.k # "throw"

\* the list max or min was called with, and a >= b for numbers
Nums == arrays[NumsRef]
GreaterEq(a, b) == a.t # "NaN" /\ b.t # "NaN" /\ ~Less(a, b)

\* C24: max(nums) of a defined list that is not empty returns an element of nums
\* that is >= every element, min(nums) an element that is <= every element; with
\* nums undefined both throw an error "Invalid arg ..."; the list is not changed.
C24_MaxMin ==
    call.op \in {"max", "min"} =>
        /\ arrays = pre.arrays
        /\ IF call.arg.t = "undefined"
           THEN /\ call.ret.k = "throw"
                /\ call.ret.message[1] = "Invalid arg: "
           ELSE Nums # <<>> =>
                /\ call.ret.k = "value"
                /\ \E i \in 1..Len(Nums) : Nums[i] = call.ret.val
                /\ \A i \in 1..Len(Nums) :
                       IF call.op = "max" THEN GreaterEq(call.ret.val, Nums[i])
                       ELSE GreaterEq(Nums[i], call.ret.val)

\* the elements of the list that are numbers one can compare
Comparable == {i \in 1..Len(Nums) : Nums[i].t # "NaN"}

\* C24, amended: max(nums) of a defined list with at least one element that is not
\* NaN returns such an element, one that is >= every element that is not NaN
\* (min: <=); NaN elements are passed over, and of a list that is empty or all NaN
\* max returns -Infinity and min Infinity; with nums undefined both throw an error
\* "Invalid arg ..."; the list is not changed.
C24_MaxMinComparable ==
    call.op \in {"max", "min"} =>
        /\ arrays = pre.arrays
        /\ IF call.arg.t = "undefined"
           THEN /\ call.ret.k = "throw"
                /\ call.ret.error = "Error"
                /\ call.ret.message[1] = "Invalid arg: "
           ELSE /\ call.ret.k = "value"
                /\ IF Comparable = {}
                   THEN call.ret.val = IF call.op = "max" THEN NEGATIVE_INFINITY ELSE Infinity
                   ELSE /\ \E i \in Comparable : Nums[i] = call.ret.val
                        /\ \A i \in Comparable :
                               IF call.op = "max" THEN GreaterEq(call.ret.val, Nums[i])
                               ELSE GreaterEq(Nums[i], call.ret.val)

\* max of a list of three with a NaN in it, the largest neither first nor last
C24_Witness ==
    /\ call.op = "max"
    /\ call.arg.t = "array"
    /\ Len(Nums) = 3
    /\ Nums[1].t = "NaN"
    /\ Nums[2] = Num(5)
    /\ Nums[3] = Num(0 - 3)
    /\ call.ret.val = Num(5)

\* the whole numbers in the range [min, max) of the last randInt call
InRange == {n \in (0 - MaxBound)..MaxBound :
               call.arg.min.h <= 2 * n /\ 2 * n < call.arg.max.h}

C26_Refinement ==
    /\ Features = abstract.list
    /\ Len(Features) = abstract.adds - abstract.removed
    /\ call.op = "delFeature" =>
          (call.ret.b <=> SameId(PreFeatures, call.arg) # {})

C26_Witness ==
    /\ call.op = "delFeature"
    /\ call.ret.b
    /\ abstract.adds = 3
    /\ abstract.removed = 2
    /\ Len(abstract.list) = 1
    /\ SameId(abstract.list, call.arg) # {}

\* C27: delFeature compares ids with strict equality, the absent case included:
\* for a feature without an id it removes the first feature of the collection
\* that has no id either (which may be another object than the one passed) and
\* returns true; the feature removed always has an id of the type and value of
\* the argument's, so that being the same object is not what removes a feature,
\* and ids of different types (1 and "1") never match
C27_StrictIds ==
    call.op = "delFeature" =>
        LET s == PreFeatures
            f == call.arg
            noId == {i \in 1..Len(s) : feats[s[i]].id.t = "undefined"}
            sameType == {i \in 1..Len(s) : feats[s[i]].id.t = feats[f].id.t}
        IN  /\ (feats[f].id.t = "undefined" /\ noId # {}) =>
                  /\ call.ret.b
                  /\ Features = Without(s, CHOOSE i \in noId : \A j \in noId : i <= j)
            /\ call.ret.b =>
                  \E i \in sameType :
                      /\ feats[s[i]].id = feats[f].id
                      /\ Features = Without(s, i)
                      /\ \A j \in 1..(i - 1) : feats[s[j]].id # feats[f].id
            /\ sameType = {} => (~call.ret.b /\ Features = s)

\* the feature passed, without an id, is the second of the collection, and the
\* first, another object without an id, is the one removed
C27_Witness ==
    /\ call.op = "delFeature"
    /\ Len(PreFeatures) = 2
    /\ PreFeatures[2] = call.arg
    /\ PreFeatures[1] # call.arg
    /\ feats[call.arg].id.t = "undefined"
    /\ call.ret.b
    /\ Features = <<call.arg>>

\* C28: getProperty and hasProperty agree on presence: getProperty(f, name)
\* throws exactly when hasProperty(f, name) is false, so a key present with the
\* value undefined is returned, and a name that is no own key of the map (an
\* inherited one among them) is reported as missing
C28_Agree ==
    call.op = "getProperty" =>
        LET has == hasProperty(call.arg.feature, call.arg.name)
        IN  /\ has.k = "value"
            /\ call.ret.k = "throw" <=> has.val = Bool(FALSE)

\* the features an array holds
Held(ref) == {arrays[ref][i] : i \in 1..Len(arrays[ref])}
PreHeld(ref) == {pre.arrays[ref][i] : i \in 1..Len(pre.arrays[ref])}

\* C29: features are shared, not copied: a feature a classifier returns is the
\* object held in C.features; a feature passed to addFeature(C2, f) while it is
\* in C1 is held by both collections; a setProperty on a feature is seen through
\* C1, C2 and the classifier result kept earlier; delFeature on C1 removes the
\* feature from C1 only
C29_Shared ==
    /\ call.op \in {"getPolygons", "getPoints"} =>
          /\ Held(call.ret.ref) \subseteq Held(coll.features)
          /\ arrays[coll.features] = pre.arrays[coll.features]
    /\ (call.op = "addFeature" /\ call.arg.coll = 2
          /\ call.arg.feature \in PreHeld(coll.features)) =>
          /\ call.arg.feature \in Held(second.features)
          /\ call.arg.feature \in Held(coll.features)
          /\ arrays[coll.features] = pre.arrays[coll.features]
    /\ call.op = "setProperty" =>
          \A ref \in ArrRef : \A i \in 1..Len(pre.arrays[ref]) :
              pre.arrays[ref][i] = call.arg.feature =>
                  getProperty(arrays[ref][i], call.arg.name) = Returns(call.arg.value)
    /\ call.op = "delFeature" =>
          /\ arrays[second.features] = pre.arrays[second.features]
          /\ arrays[ShareRef] = pre.arrays[ShareRef]
          /\ feats = pre.feats

\* a feature written to, held by both collections and by a classifier result,
\* has been deleted from the first collection and is still in the other two
C29_Witness ==
    /\ call.op = "delFeature"
    /\ call.ret.b
    /\ call.arg.feature \notin Held(coll.features)
    /\ call.arg.feature \in Held(second.features)
    /\ call.arg.feature \in Held(ShareRef)
    /\ "aaa" \in Keys(Props(call.arg.feature))
    /\ getProperty(arrays[second.features][1], "aaa") = Returns(Num(12345))
    /\ getProperty(arrays[ShareRef][1], "aaa") = Returns(Num(12345))

\* a string of digits with at most one point among them
NumericLooking(s) ==
    /\ \A i \in 1..Len(s) : IsDigit(s[i]) \/ s[i] = "."
    /\ \E i \in 1..Len(s) : IsDigit(s[i])
    /\ Cardinality({i \in 1..Len(s) : s[i] = "."}) <= 1

\* the empty string, or one of white space only
Blank(s) == \A i \in 1..Len(s) : s[i] \in {" ", "\n", "\t", "\r"}

\* the type the claim gives for a first-seen value
TypeOfValue(v) ==
    IF v.t \in {"number", "boolean", "null"} THEN "number"
    ELSE IF v.t = "string" /\ (NumericLooking(v.s) \/ Blank(v.s)) THEN "number"
    ELSE "string"

\* C30: getPropertyTypes records "number" for a key exactly when isNaN of its
\* first-seen value is false: for first-seen numbers, booleans, null, strings
\* that look like numbers ("4", "2.5") and empty or white-space strings it
\* records "number"; for a first-seen NaN, a string that is no number, or a
\* nested object it records "string"
C30_TypesByValue ==
    call.op = "getPropertyTypes" =>
        \A i \in 1..Len(call.ret.map) :
            LET key == call.ret.map[i].key
                first == ValueAt(feats[Features[FirstCarrier(key)]].properties, key)
            IN  /\ call.ret.map[i].value = TypeOfValue(first)
                /\ call.ret.map[i].value = "number" <=> ~isNaN(first)

\* "aaa" is null in the first feature and NaN in the second, and is recorded
\* as a number, as are "4" and the string of a newline
C30_Witness ==
    /\ call.op = "getPropertyTypes"
    /\ Features = <<1, 2>>
    /\ "aaa" \in Keys(Props(1))
    /\ "aaa" \in Keys(Props(2))
    /\ ValueAt(Props(1), "aaa") = Null
    /\ ValueAt(Props(2), "aaa") = NaN
    /\ ValueAt(call.ret.map, "aaa") = "number"
    /\ ValueAt(call.ret.map, "objectid_1") = "number"
    /\ ValueAt(call.ret.map, "DEFAULT") = "number"
    /\ ValueAt(call.ret.map, "PDT_OWNER") = "string"

====
